---- MODULE Spec2Model ----
(***************************************************************************)
(* Ranking and points allocation of DatabaseManager (src/database.py).     *)
(*                                                                         *)
(* The store is the hosted relational database the code talks to through   *)
(* self.supabase: the tables "events", "results" and "relay_teams" are the *)
(* state.  Spec is the store used by one session; SpecConcurrent,          *)
(* SpecRacing and SpecDisjoint step two sessions request by request;       *)
(* SpecFailing lets requests raise; SpecNormalizer runs the parsers and    *)
(* formatters of src/utils.py; SpecStandings reads the house standings and *)
(* the athlete leaderboard; SpecOrphans reads them after events were       *)
(* deleted; SpecMeet registers and times relay teams, recomputes and       *)
(* submits the result form.                                                *)
(* Measurement values are kept in hundredths (12.34 s is 1234, 5.20 m is   *)
(* 520), so float(x["result_value"]) is the value itself.                  *)
(***************************************************************************)
EXTENDS Integers, Sequences, FiniteSets, TLC

\* ------------------------------------------------------------------ bounds
MaxResultId == 3     \* result rows ever inserted (result_id is a serial key)

MaxConcurrentInserts == 2   \* rows inserted by the concurrent sessions

\* ------------------------------------------------------------- the students
\* Rows of the "students" table: curtin_id, gender, house.
Students == {"s1", "s2", "s3"}

Gender(s) == IF s = "s2" THEN "Female" ELSE "Male"

HouseOf(s) == IF s = "s3" THEN "Nereus" ELSE "Ignis"

\* Canonical measurements the result-entry form submits, in hundredths:
\* times for a Track event, distances for a Field event.
TrackValues == {1102, 1234, 1350}

FieldValues == {520, 610}

ValuesFor(event_type) == IF event_type = "Track" THEN TrackValues ELSE FieldValues

EventTypes == {"Track", "Field"}

\* ------------------------------------------------------------ points tables
\* add_event's defaults, keyed by position as the caller passes them.
DefaultIndividualPoints == (1 :> 10) @@ (2 :> 6) @@ (3 :> 3) @@ (4 :> 1)

DefaultRelayPoints == (1 :> 15) @@ (2 :> 9) @@ (3 :> 5) @@ (4 :> 3)

EmptyAllocation == [p \in {} |-> 0]

Digit(d) == CASE d = 0 -> "0" [] d = 1 -> "1" [] d = 2 -> "2" [] d = 3 -> "3"
              [] d = 4 -> "4" [] d = 5 -> "5" [] d = 6 -> "6" [] d = 7 -> "7"
              [] d = 8 -> "8" [] d = 9 -> "9"

\* Python's str() of a non-negative integer.
RECURSIVE Str(_)
Str(n) == IF n < 10 THEN Digit(n) ELSE Str(n \div 10) \o Digit(n % 10)

\* {str(k): v for k, v in point_allocation.items()}
StrKeys(pa) == [k \in {Str(p) : p \in DOMAIN pa} |->
                  pa[CHOOSE p \in DOMAIN pa : Str(p) = k]]

\* The allocation add_event stores for the caller's arguments.
StoredAllocation(is_relay, pa) ==
    StrKeys(IF pa = EmptyAllocation
            THEN (IF is_relay THEN DefaultRelayPoints ELSE DefaultIndividualPoints)
            ELSE pa)

\* ------------------------------------------------------------------- state
VARIABLES
    events,        \* event_id -> row of the "events" table
    results,       \* the rows of the "results" table
    nextResultId,  \* the next result_id the store hands out
    last,          \* the operation that returned last, and how it went
    prev,          \* the "results" table when that operation was called
    calls,         \* client -> where its call stands (concurrent clients)
    entry,         \* a text or value on its way through the normalizer and formatter
    before,        \* the operation that returned before the last (failing store)
    relay_teams,   \* the rows of the "relay_teams" table
    prev_teams,    \* the "relay_teams" table when the last operation was called
    house_points,  \* what get_house_points returned last
    performance_list  \* what the athlete leaderboard returned or showed last

vars == <<events, results, nextResultId, last, prev, calls, entry, before,
          relay_teams, prev_teams, house_points, performance_list>>

\* The variables that the specification of the sequential store leaves alone.
apart == <<entry, before, relay_teams, prev_teams, house_points, performance_list>>

\* Two sessions of the application on the one store.
Clients == {"c1", "c2"}

Idle == [pc |-> "idle", curtin_id |-> "", event_id |-> 0, result_value |-> 0,
         sorted |-> <<>>, point_allocation |-> <<>>, i |-> 0, result_id |-> 0]

NoOp == [op |-> "none", event_id |-> 0, ret |-> TRUE, recompute |-> "none",
         existed |-> FALSE, ranked_before |-> FALSE, result_id |-> 0]

\* What is kept of the operation before the last: its event and how its
\* recompute ended.
Outcome(operation) == [event_id |-> operation.event_id, recompute |-> operation.recompute]

NoEntry == [pc |-> "none", origin |-> "none", event_type |-> "", x |-> 0,
            text |-> <<>>, ok |-> FALSE, nan |-> FALSE, v |-> 0]

\* Nothing typed, no relay team registered, no standings asked for.
ApartInit ==
    /\ entry = NoEntry
    /\ before = Outcome(NoOp)
    /\ relay_teams = {}
    /\ prev_teams = {}
    /\ house_points = <<>>
    /\ performance_list = <<>>

Init ==
    /\ events = [e \in {} |-> 0]
    /\ results = {}
    /\ nextResultId = 1
    /\ last = NoOp
    /\ prev = {}
    /\ calls = [c \in Clients |-> Idle]
    /\ ApartInit

\* ------------------------------------------------------------- the ranking
\* The select without its filter by event.
EventResultsOfAllEvents(rs, e) == rs

\* select("*").eq("event_id", event_id) on "results"
EventResults(rs, e) == {r \in rs : r.event_id = e}

\* The select states no order, so the store may return the rows in any.
FetchOrders(S) ==
    {f \in [1..Cardinality(S) -> S] : \A i, j \in DOMAIN f : i # j => f[i] # f[j]}

\* The descending order of the other event types forgotten.
SortsBeforeAscending(a, b, event_type) == a.result_value < b.result_value

\* a sorts strictly before b: ascending by value for Track, descending otherwise
SortsBefore(a, b, event_type) ==
    IF event_type = "Track"
    THEN a.result_value < b.result_value
    ELSE a.result_value > b.result_value

Min(S) == CHOOSE x \in S : \A y \in S : x <= y

\* sorted() is stable: x goes before the first element it sorts strictly before
InsertSorted(s, x, event_type) ==
    LET after == {i \in 1..Len(s) : SortsBefore(x, s[i], event_type)}
        p == IF after = {} THEN Len(s) + 1 ELSE Min(after)
    IN  SubSeq(s, 1, p - 1) \o <<x>> \o SubSeq(s, p, Len(s))

\* The rows left in the order the select returned them.
SortedResultsAsFetched(s, event_type) == s

RECURSIVE SortedResults(_, _)
SortedResults(s, event_type) ==
    IF s = <<>> THEN <<>>
    ELSE InsertSorted(SortedResults(SubSeq(s, 1, Len(s) - 1), event_type),
                      s[Len(s)], event_type)

\* enumerate's index taken as the position
PositionOfZeroBased(i) == i

\* position = i + 1 for enumerate's index i
PositionOf(i) == i + 1

\* The table read under enumerate's index instead of the position.
PointsForIndex(point_allocation, position) ==
    IF Str(position - 1) \in DOMAIN point_allocation
    THEN point_allocation[Str(position - 1)]
    ELSE 0

\* The points of a position: the table's entry under str(position), else 0.
\* (The stored keys are strings, so the second lookup by the integer finds
\* nothing the first did not.)
PointsFor(point_allocation, position) ==
    IF Str(position) \in DOMAIN point_allocation
    THEN point_allocation[Str(position)]
    ELSE 0

\* Only the rows that still hold the placeholder position written.
UpdateRankingUnrankedOnly(rs, id, position, points) ==
    {IF r.result_id = id /\ r.position = 999
     THEN [r EXCEPT !.position = position, !.points = points]
     ELSE r : r \in rs}

\* An update that writes the position into the value as well.
UpdateRankingWritesValue(rs, id, position, points) ==
    {IF r.result_id = id
     THEN [r EXCEPT !.position = position, !.points = points,
                    !.result_value = position]
     ELSE r : r \in rs}

\* update({position, points}).eq("result_id", id): the rows with that id
UpdateRanking(rs, id, position, points) ==
    {IF r.result_id = id
     THEN [r EXCEPT !.position = position, !.points = points]
     ELSE r : r \in rs}

\* The update loop over the sorted rows, of which the first k updates reach
\* the store (k = Len(sorted) when none raises).
RECURSIVE UpdateLoop(_, _, _, _)
UpdateLoop(rs, sorted, point_allocation, k) ==
    IF k = 0 THEN rs
    ELSE UpdateRanking(UpdateLoop(rs, sorted, point_allocation, k - 1),
                       sorted[k].result_id,
                       PositionOf(k - 1),
                       PointsFor(point_allocation, PositionOf(k - 1)))

\* _calculate_positions_and_points(e) on table rs, for a fetch order and a
\* number k of updates that succeed: the table afterwards.
CalculatePositionsAndPoints(rs, e, order, k) ==
    IF e \notin DOMAIN events THEN rs
    ELSE UpdateLoop(rs, SortedResults(order, events[e].event_type),
                    events[e].point_allocation, k)

\* How many of the loop's updates reach the store: all of them, the store
\* raising on none (a recompute cut short by a raising update is k < Len).
UpdatesDone(order) == {Len(order)}

\* How the recompute ended.
RecomputeOutcome(rs, e, k) ==
    IF e \notin DOMAIN events THEN "notfound"
    ELSE IF k = Cardinality(EventResults(rs, e)) THEN "complete" ELSE "partial"

\* ----------------------------------------------------------------- actions
\* The event ids the store hands out: the meet modelled has one event.
EventIds == {1}

\* add_event(event_name, event_type, unit, is_relay, point_allocation)
AddEvent(event_type, is_relay, pa) ==
    /\ Cardinality(DOMAIN events) < Cardinality(EventIds)
    /\ LET id == Cardinality(DOMAIN events) + 1
       IN  events' = events @@ (id :> [event_type |-> event_type,
                                       is_relay |-> is_relay,
                                       point_allocation |-> StoredAllocation(is_relay, pa)])
    /\ last' = [NoOp EXCEPT !.op = "add_event"]
    /\ prev' = results
    /\ UNCHANGED <<results, nextResultId>>

\* The athlete's id compared with the wrong column.
ExistingWrongColumn(rs, curtin_id, event_id) ==
    {r \in rs : r.house = curtin_id /\ r.event_id = event_id}

\* select("*").eq("curtin_id", ..).eq("event_id", ..) on "results"
Existing(rs, curtin_id, event_id) ==
    {r \in rs : r.curtin_id = curtin_id /\ r.event_id = event_id}

HasResult(s, e) == \E r \in results : r.curtin_id = s /\ r.event_id = e

RankedBefore(e) == last.recompute = "complete" /\ last.event_id = e

\* add_result: a result for the pair exists already
AddResultDuplicate(s, e, v) ==
    /\ Existing(results, s, e) # {}
    /\ last' = [op |-> "add_result", event_id |-> e, ret |-> FALSE,
                recompute |-> "none", existed |-> HasResult(s, e),
                ranked_before |-> RankedBefore(e), result_id |-> 0]
    /\ prev' = results
    /\ UNCHANGED <<events, results, nextResultId>>

\* The row add_result inserts.
NewResult(id, s, e, v) ==
    [result_id |-> id, curtin_id |-> s, event_id |-> e, result_value |-> v,
     house |-> HouseOf(s), points |-> 0, position |-> 999]

\* add_result: the insert goes through and the event is re-ranked
AddResultInserted(s, e, v) ==
    /\ Existing(results, s, e) = {}
    /\ nextResultId <= MaxResultId
    /\ LET inserted == results \cup {NewResult(nextResultId, s, e, v)}
       IN  \E order \in FetchOrders(EventResults(inserted, e)) :
           \E k \in UpdatesDone(order) :
             /\ results' = CalculatePositionsAndPoints(inserted, e, order, k)
             /\ last' = [op |-> "add_result", event_id |-> e, ret |-> TRUE,
                         recompute |-> RecomputeOutcome(inserted, e, k),
                         existed |-> HasResult(s, e),
                         ranked_before |-> RankedBefore(e),
                         result_id |-> nextResultId]
    /\ nextResultId' = nextResultId + 1
    /\ prev' = results
    /\ UNCHANGED events

\* add_result: the insert raises, or returns no data
AddResultInsertFails(s, e, v) ==
    /\ Existing(results, s, e) = {}
    /\ last' = [op |-> "add_result", event_id |-> e, ret |-> FALSE,
                recompute |-> "none", existed |-> HasResult(s, e),
                ranked_before |-> RankedBefore(e), result_id |-> 0]
    /\ prev' = results
    /\ UNCHANGED <<events, results, nextResultId>>

\* a direct call of _calculate_positions_and_points(e)
Recompute(e) ==
    /\ \E order \in FetchOrders(EventResults(results, e)) :
       \E k \in UpdatesDone(order) :
         /\ results' = CalculatePositionsAndPoints(results, e, order, k)
         /\ last' = [op |-> "recompute", event_id |-> e, ret |-> TRUE,
                     recompute |-> RecomputeOutcome(results, e, k),
                     existed |-> FALSE, ranked_before |-> RankedBefore(e),
                     result_id |-> 0]
    /\ prev' = results
    /\ UNCHANGED <<events, nextResultId>>

\* The row looked up by its position instead of its id.
FindResultByPosition(rs, id) == {r \in rs : r.position = id}

\* select("event_id").eq("result_id", result_id) on "results"
FindResult(rs, id) == {r \in rs : r.result_id = id}

\* A row of the given id is stored.
HasResultId(id) == \E r \in results : r.result_id = id

\* delete_result(result_id): no such row
DeleteResultNotFound(id) ==
    /\ FindResult(results, id) = {}
    /\ last' = [op |-> "delete_result", event_id |-> 0, ret |-> FALSE,
                recompute |-> "none", existed |-> HasResultId(id),
                ranked_before |-> FALSE, result_id |-> id]
    /\ prev' = results
    /\ UNCHANGED <<events, results, nextResultId>>

\* delete_result(result_id): the row is deleted and its event re-ranked
DeleteResultDeleted(id) ==
    /\ FindResult(results, id) # {}
    /\ LET row == CHOOSE r \in FindResult(results, id) : TRUE
           e == row.event_id
           remaining == results \ FindResult(results, id)
       IN  \E order \in FetchOrders(EventResults(remaining, e)) :
           \E k \in UpdatesDone(order) :
             /\ results' = CalculatePositionsAndPoints(remaining, e, order, k)
             /\ last' = [op |-> "delete_result", event_id |-> e, ret |-> TRUE,
                         recompute |-> RecomputeOutcome(remaining, e, k),
                         existed |-> HasResultId(id),
                         ranked_before |-> RankedBefore(e),
                         result_id |-> id]
    /\ prev' = results
    /\ UNCHANGED <<events, nextResultId>>

ResultIds == 1..MaxResultId

\* What the add-event form submits: an event type, the relay flag and a table
\* over positions 1..8 holding the entries > 0 (empty: add_event's default).
EventInputs ==
    {<<"Track", FALSE, EmptyAllocation>>, <<"Field", FALSE, EmptyAllocation>>,
     <<"Field", FALSE, (1 :> 1) @@ (2 :> 5)>>, <<"Track", TRUE, EmptyAllocation>>,
     <<"Track", FALSE, (2 :> 4)>>}

DoAddEvent ==
    /\ \E in \in EventInputs : AddEvent(in[1], in[2], in[3])
    /\ UNCHANGED <<calls, apart>>

DoAddResultDuplicate ==
    /\ \E s \in Students, e \in DOMAIN events :
       \E v \in ValuesFor(events[e].event_type) : AddResultDuplicate(s, e, v)
    /\ UNCHANGED <<calls, apart>>

DoAddResultInserted ==
    /\ \E s \in Students, e \in DOMAIN events :
       \E v \in ValuesFor(events[e].event_type) : AddResultInserted(s, e, v)
    /\ UNCHANGED <<calls, apart>>

DoAddResultInsertFails ==
    /\ \E s \in Students, e \in DOMAIN events :
       \E v \in ValuesFor(events[e].event_type) : AddResultInsertFails(s, e, v)
    /\ UNCHANGED <<calls, apart>>

DoRecompute ==
    /\ \E e \in DOMAIN events : Recompute(e)
    /\ UNCHANGED <<calls, apart>>

DoDeleteResultNotFound ==
    /\ \E id \in ResultIds : DeleteResultNotFound(id)
    /\ UNCHANGED <<calls, apart>>

DoDeleteResultDeleted ==
    /\ \E id \in ResultIds : DeleteResultDeleted(id)
    /\ UNCHANGED <<calls, apart>>

Next ==
    \/ DoAddEvent
    \/ DoAddResultDuplicate
    \/ DoAddResultInserted
    \/ DoAddResultInsertFails
    \/ DoRecompute
    \/ DoDeleteResultNotFound
    \/ DoDeleteResultDeleted

Spec == Init /\ [][Next]_vars

\* ------------------------------------------------------- concurrent clients
\* add_result as the store sees it when two sessions call it: the existence
\* check, the insert, the recompute's two selects and each of its updates are
\* separate requests, and requests of the two sessions interleave.
InitConcurrent ==
    /\ \E in \in EventInputs :
         events = (1 :> [event_type |-> in[1], is_relay |-> in[2],
                         point_allocation |-> StoredAllocation(in[2], in[3])])
    /\ results = {}
    /\ nextResultId = 1
    /\ last = NoOp
    /\ prev = {}
    /\ calls = [c \in Clients |-> Idle]
    /\ ApartInit

\* add_result's existence check finds a row: the call returns False
CheckFindsExisting(c, s, e, v) ==
    /\ calls[c].pc = "idle"
    /\ Existing(results, s, e) # {}
    /\ UNCHANGED vars

\* add_result's existence check finds nothing: the call goes on to insert
CheckFindsNone(c, s, e, v) ==
    /\ calls[c].pc = "idle"
    /\ nextResultId + Cardinality({d \in Clients : calls[d].pc = "insert"})
           <= MaxConcurrentInserts
    /\ Existing(results, s, e) = {}
    /\ calls' = [calls EXCEPT ![c] = [Idle EXCEPT !.pc = "insert", !.curtin_id = s,
                                                  !.event_id = e, !.result_value = v]]
    /\ UNCHANGED <<events, results, nextResultId, last, prev, apart>>

\* add_result's insert
InsertResult(c) ==
    /\ calls[c].pc = "insert"
    /\ results' = results \cup {NewResult(nextResultId, calls[c].curtin_id,
                                          calls[c].event_id, calls[c].result_value)}
    /\ nextResultId' = nextResultId + 1
    /\ calls' = [calls EXCEPT ![c].pc = "fetch"]
    /\ UNCHANGED <<events, last, prev, apart>>

\* The result_id of each row of s: what the update loop reads of a row.
ResultIdsOf(s) == [i \in DOMAIN s |-> s[i].result_id]

\* the recompute's selects of the event and of its rows, and the sort; with
\* no row fetched the recompute, and the call with it, returns
FetchAndSort(c) ==
    /\ calls[c].pc = "fetch"
    /\ LET e == calls[c].event_id
       IN  \E order \in FetchOrders(EventResults(results, e)) :
             calls' = [calls EXCEPT ![c] =
                         IF order = <<>> THEN Idle
                         ELSE [calls[c] EXCEPT
                                 !.pc = "update",
                                 !.sorted = ResultIdsOf(SortedResults(order, events[e].event_type)),
                                 !.point_allocation = events[e].point_allocation,
                                 !.i = 0]]
    /\ UNCHANGED <<events, results, nextResultId, last, prev, apart>>

\* one pass of the recompute's update loop; after the last, add_result returns
UpdateNext(c) ==
    /\ calls[c].pc = "update"
    /\ LET call == calls[c]
           position == PositionOf(call.i)
       IN  /\ results' = UpdateRanking(results, call.sorted[call.i + 1],
                                       position,
                                       PointsFor(call.point_allocation, position))
           /\ calls' = [calls EXCEPT ![c] =
                          IF call.i + 1 = Len(call.sorted)
                          THEN Idle
                          ELSE [call EXCEPT !.i = call.i + 1]]
    /\ UNCHANGED <<events, nextResultId, last, prev, apart>>

DoCheckFindsExisting ==
    \E c \in Clients, s \in Students, e \in DOMAIN events :
    \E v \in ValuesFor(events[e].event_type) : CheckFindsExisting(c, s, e, v)

DoCheckFindsNone ==
    \E c \in Clients, s \in Students, e \in DOMAIN events :
    \E v \in ValuesFor(events[e].event_type) : CheckFindsNone(c, s, e, v)

DoInsertResult == \E c \in Clients : InsertResult(c)

DoFetchAndSort == \E c \in Clients : FetchAndSort(c)

DoUpdateNext == \E c \in Clients : UpdateNext(c)

NextConcurrent ==
    \/ DoCheckFindsExisting
    \/ DoCheckFindsNone
    \/ DoInsertResult
    \/ DoFetchAndSort
    \/ DoUpdateNext

SpecConcurrent == InitConcurrent /\ [][NextConcurrent]_vars

\* ------------------------------------------------------- the failing store
\* The store may raise on any request.  add_result catches what its insert
\* raises; _calculate_positions_and_points catches what its own requests
\* raise, so an aborted recompute leaves the updates made so far.
MaxFailingResultId == 2     \* result rows ever inserted while the store fails

\* One event is registered: a Track event with add_event's default table, or
\* a Field event with a table of its own.
FailingEventInputs ==
    {<<"Track", FALSE, EmptyAllocation>>, <<"Field", FALSE, (1 :> 1) @@ (2 :> 5)>>}

InitFailing ==
    /\ \E in \in FailingEventInputs :
         events = (1 :> [event_type |-> in[1], is_relay |-> in[2],
                         point_allocation |-> StoredAllocation(in[2], in[3])])
    /\ results = {}
    /\ nextResultId = 1
    /\ last = NoOp
    /\ prev = {}
    /\ calls = [c \in Clients |-> Idle]
    /\ ApartInit

\* The updates that reached the store when the recompute aborted: none when
\* the event lookup, the fetch or the first update raised.
UpdatesBeforeAbort(order) == 0..(Len(order) - 1)

\* The success reported although the ranking did not complete withdrawn.
AddResultReturnsWhenRanked(inserted, recompute) == inserted /\ recompute = "complete"

\* add_result's return value: True when the insert returned the row,
\* whatever became of the recompute
AddResultReturns(inserted, recompute) == inserted

\* The row reaching the table although the insert raised.
AddResultInsertRaisesRowWritten(s, e, v) ==
    /\ Existing(results, s, e) = {}
    /\ nextResultId <= MaxFailingResultId
    /\ results' = results \cup {NewResult(nextResultId, s, e, v)}
    /\ nextResultId' = nextResultId + 1
    /\ last' = [op |-> "add_result", event_id |-> e,
                ret |-> AddResultReturns(FALSE, "none"), recompute |-> "none",
                existed |-> HasResult(s, e), ranked_before |-> RankedBefore(e),
                result_id |-> 0, raised |-> "insert", curtin_id |-> s]
    /\ prev' = results
    /\ UNCHANGED events

\* add_result: the insert raises
AddResultInsertRaises(s, e, v) ==
    /\ Existing(results, s, e) = {}
    /\ last' = [op |-> "add_result", event_id |-> e,
                ret |-> AddResultReturns(FALSE, "none"), recompute |-> "none",
                existed |-> HasResult(s, e), ranked_before |-> RankedBefore(e),
                result_id |-> 0, raised |-> "insert", curtin_id |-> s]
    /\ prev' = results
    /\ UNCHANGED <<events, results, nextResultId>>

\* add_result: the insert goes through, the recompute aborts
AddResultRecomputeAborts(s, e, v) ==
    /\ Existing(results, s, e) = {}
    /\ nextResultId <= MaxFailingResultId
    /\ LET inserted == results \cup {NewResult(nextResultId, s, e, v)}
       IN  \E order \in FetchOrders(EventResults(inserted, e)) :
           \E k \in UpdatesBeforeAbort(order) :
             /\ results' = CalculatePositionsAndPoints(inserted, e, order, k)
             /\ last' = [op |-> "add_result", event_id |-> e,
                         ret |-> AddResultReturns(TRUE, RecomputeOutcome(inserted, e, k)),
                         recompute |-> RecomputeOutcome(inserted, e, k),
                         existed |-> HasResult(s, e),
                         ranked_before |-> RankedBefore(e),
                         result_id |-> nextResultId, raised |-> "recompute"]
    /\ nextResultId' = nextResultId + 1
    /\ prev' = results
    /\ UNCHANGED events

\* _calculate_positions_and_points(e) aborts
RecomputeAborts(e) ==
    /\ \E order \in FetchOrders(EventResults(results, e)) :
       \E k \in UpdatesBeforeAbort(order) :
         /\ results' = CalculatePositionsAndPoints(results, e, order, k)
         /\ last' = [op |-> "recompute", event_id |-> e, ret |-> TRUE,
                     recompute |-> RecomputeOutcome(results, e, k),
                     existed |-> FALSE, ranked_before |-> RankedBefore(e),
                     result_id |-> 0]
    /\ prev' = results
    /\ UNCHANGED <<events, nextResultId>>

FailingAddResultInserted ==
    /\ nextResultId <= MaxFailingResultId
    /\ \E s \in Students, e \in DOMAIN events :
       \E v \in ValuesFor(events[e].event_type) : AddResultInserted(s, e, v)
    /\ before' = Outcome(last)
    /\ UNCHANGED <<calls, entry, relay_teams, prev_teams, house_points,
                   performance_list>>

FailingAddResultInsertRaises ==
    /\ \E s \in Students, e \in DOMAIN events :
       \E v \in ValuesFor(events[e].event_type) : AddResultInsertRaises(s, e, v)
    /\ before' = Outcome(last)
    /\ UNCHANGED <<calls, entry, relay_teams, prev_teams, house_points,
                   performance_list>>

FailingAddResultRecomputeAborts ==
    /\ \E s \in Students, e \in DOMAIN events :
       \E v \in ValuesFor(events[e].event_type) : AddResultRecomputeAborts(s, e, v)
    /\ before' = Outcome(last)
    /\ UNCHANGED <<calls, entry, relay_teams, prev_teams, house_points,
                   performance_list>>

FailingRecompute ==
    /\ \E e \in DOMAIN events : Recompute(e)
    /\ before' = Outcome(last)
    /\ UNCHANGED <<calls, entry, relay_teams, prev_teams, house_points,
                   performance_list>>

FailingRecomputeAborts ==
    /\ \E e \in DOMAIN events : RecomputeAborts(e)
    /\ before' = Outcome(last)
    /\ UNCHANGED <<calls, entry, relay_teams, prev_teams, house_points,
                   performance_list>>

NextFailing ==
    \/ FailingAddResultInserted
    \/ FailingAddResultInsertRaises
    \/ FailingAddResultRecomputeAborts
    \/ FailingRecompute
    \/ FailingRecomputeAborts

SpecFailing == InitFailing /\ [][NextFailing]_vars

\* ----------------------------------------------- racing mutations of an event
\* Two sessions enter and delete results of the one event, each for its own
\* athlete; delete_result too is a sequence of requests: the lookup, the
\* delete, and the recompute's selects and updates.
RacingAthlete(c) == IF c = "c1" THEN "s1" ELSE "s2"

InitRacing == InitFailing

\* delete_result's lookup finds the row: the call goes on to delete it
DeleteLookup(c, id) ==
    /\ calls[c].pc = "idle"
    /\ FindResult(results, id) # {}
    /\ LET row == CHOOSE r \in FindResult(results, id) : TRUE
       IN  calls' = [calls EXCEPT ![c] = [Idle EXCEPT !.pc = "delete",
                                                     !.event_id = row.event_id,
                                                     !.result_id = id]]
    /\ UNCHANGED <<events, results, nextResultId, last, prev, apart>>

\* delete_result's delete; the recompute follows whatever it deleted
DeleteRow(c) ==
    /\ calls[c].pc = "delete"
    /\ results' = results \ FindResult(results, calls[c].result_id)
    /\ calls' = [calls EXCEPT ![c].pc = "fetch"]
    /\ UNCHANGED <<events, nextResultId, last, prev, apart>>

\* No call is under way.
Quiescent == \A c \in Clients : calls[c].pc = "idle"

RacingCheckFindsNone ==
    \E c \in Clients, e \in DOMAIN events :
    \E v \in ValuesFor(events[e].event_type) :
        CheckFindsNone(c, RacingAthlete(c), e, v)

DoDeleteLookup == \E c \in Clients, id \in ResultIds : DeleteLookup(c, id)

DoDeleteRow == \E c \in Clients : DeleteRow(c)

\* a recompute of the event that no request of a session interrupts
RacingRecompute ==
    /\ Quiescent
    /\ \E e \in DOMAIN events : Recompute(e)
    /\ UNCHANGED <<calls, apart>>

NextRacing ==
    \/ RacingCheckFindsNone
    \/ DoInsertResult
    \/ DoDeleteLookup
    \/ DoDeleteRow
    \/ DoFetchAndSort
    \/ DoUpdateNext
    \/ RacingRecompute

SpecRacing == InitRacing /\ [][NextRacing]_vars

\* ------------------------------------------- recomputes of different events
\* Rows of "relay_teams": team_id, house, event_id, result_value (0: none
\* entered yet), position and points (0: not ranked yet).
RelayTeam(id, house, e, v) ==
    [team_id |-> id, house |-> house, event_id |-> e, result_value |-> v,
     position |-> 0, points |-> 0]

\* select("*").eq("event_id", event_id) on "relay_teams"
EventTeams(ts, e) == {t \in ts : t.event_id = e}

\* The teams without the filter by result_value.
TeamsWithResultsAll(ts) == ts

\* [team for team in teams if team.get("result_value")]
TeamsWithResults(ts) == {t \in ts : t.result_value # 0}

\* update({position, points}).eq("team_id", id) on "relay_teams"
UpdateTeamRanking(ts, id, position, points) ==
    {IF t.team_id = id
     THEN [t EXCEPT !.position = position, !.points = points]
     ELSE t : t \in ts}

TeamIdsOf(s) == [i \in DOMAIN s |-> s[i].team_id]

\* Two individual events and two relay events, two entrants in each; the
\* values entered differ or tie.
DisjointEvents ==
    (1 :> [event_type |-> "Track", is_relay |-> FALSE,
           point_allocation |-> StoredAllocation(FALSE, EmptyAllocation)])
    @@ (2 :> [event_type |-> "Field", is_relay |-> FALSE,
              point_allocation |-> StoredAllocation(FALSE, (1 :> 1) @@ (2 :> 5))])
    @@ (3 :> [event_type |-> "Track", is_relay |-> TRUE,
              point_allocation |-> StoredAllocation(TRUE, EmptyAllocation)])
    @@ (4 :> [event_type |-> "Track", is_relay |-> TRUE,
              point_allocation |-> StoredAllocation(TRUE, EmptyAllocation)])

EnteredValues(e) ==
    CASE e = 1 -> {<<1234, 1102>>, <<1234, 1234>>}
      [] e = 2 -> {<<520, 610>>, <<520, 520>>}
      [] e = 3 -> {<<4500, 4450>>, <<4500, 4500>>}
      [] e = 4 -> {<<4450, 4800>>, <<4450, 0>>}

\* The tables after the results were entered and no recompute has run.
InitDisjoint ==
    /\ events = DisjointEvents
    /\ \E v1 \in EnteredValues(1), v2 \in EnteredValues(2) :
         results = {NewResult(1, "s1", 1, v1[1]), NewResult(2, "s2", 1, v1[2]),
                    NewResult(3, "s1", 2, v2[1]), NewResult(4, "s3", 2, v2[2])}
    /\ \E v3 \in EnteredValues(3), v4 \in EnteredValues(4) :
         relay_teams = {RelayTeam(1, "Ignis", 3, v3[1]), RelayTeam(2, "Nereus", 3, v3[2]),
                        RelayTeam(3, "Ignis", 4, v4[1]), RelayTeam(4, "Nereus", 4, v4[2])}
    /\ nextResultId = 5
    /\ last = NoOp
    /\ prev = results
    /\ prev_teams = relay_teams
    /\ calls = [c \in Clients |-> Idle]
    /\ entry = NoEntry
    /\ before = Outcome(NoOp)
    /\ house_points = <<>>
    /\ performance_list = <<>>

\* A session calls the recompute of an event that the other session is not
\* recomputing: _calculate_positions_and_points for an individual event,
\* _calculate_relay_positions_and_points for a relay event.
BeginRecompute(c, e) ==
    /\ calls[c].pc = "idle"
    /\ \A d \in Clients \ {c} : calls[d].pc = "idle" \/ calls[d].event_id # e
    /\ calls' = [calls EXCEPT ![c] =
                   [Idle EXCEPT !.event_id = e,
                                !.pc = IF events[e].is_relay THEN "fetch_teams" ELSE "fetch"]]
    /\ UNCHANGED <<events, results, nextResultId, last, prev, apart>>

\* the relay recompute's selects of the event and of its teams, the filter
\* and the sort by time
FetchAndSortTeams(c) ==
    /\ calls[c].pc = "fetch_teams"
    /\ LET e == calls[c].event_id
       IN  \E order \in FetchOrders(EventTeams(relay_teams, e)) :
             LET with_results == SelectSeq(order, LAMBDA t : t \in TeamsWithResults(relay_teams))
             IN  calls' = [calls EXCEPT ![c] =
                             IF with_results = <<>> THEN Idle
                             ELSE [calls[c] EXCEPT
                                     !.pc = "update_teams",
                                     !.sorted = TeamIdsOf(SortedResults(with_results, "Track")),
                                     !.point_allocation = events[e].point_allocation,
                                     !.i = 0]]
    /\ UNCHANGED <<events, results, nextResultId, last, prev, apart>>

\* one pass of the relay recompute's update loop
UpdateNextTeam(c) ==
    /\ calls[c].pc = "update_teams"
    /\ LET call == calls[c]
           position == PositionOf(call.i)
       IN  /\ relay_teams' = UpdateTeamRanking(relay_teams, call.sorted[call.i + 1],
                                               position,
                                               PointsFor(call.point_allocation, position))
           /\ calls' = [calls EXCEPT ![c] =
                          IF call.i + 1 = Len(call.sorted)
                          THEN Idle
                          ELSE [call EXCEPT !.i = call.i + 1]]
    /\ UNCHANGED <<events, results, nextResultId, last, prev, entry, before,
                   prev_teams, house_points, performance_list>>

DoBeginRecompute == \E c \in Clients, e \in DOMAIN events : BeginRecompute(c, e)

DoFetchAndSortTeams == \E c \in Clients : FetchAndSortTeams(c)

DoUpdateNextTeam == \E c \in Clients : UpdateNextTeam(c)

NextDisjoint ==
    \/ DoBeginRecompute
    \/ DoFetchAndSort
    \/ DoUpdateNext
    \/ DoFetchAndSortTeams
    \/ DoUpdateNextTeam

SpecDisjoint == InitDisjoint /\ [][NextDisjoint]_vars

\* ------------------------------------------------------ the house standings
\* The relay recompute's update loop over the sorted teams.
RECURSIVE UpdateTeamLoop(_, _, _, _)
UpdateTeamLoop(ts, sorted, point_allocation, k) ==
    IF k = 0 THEN ts
    ELSE UpdateTeamRanking(UpdateTeamLoop(ts, sorted, point_allocation, k - 1),
                           sorted[k].team_id,
                           PositionOf(k - 1),
                           PointsFor(point_allocation, PositionOf(k - 1)))

\* _calculate_relay_positions_and_points(e) on table ts for a fetch order
CalculateRelayPositionsAndPoints(ts, e, order) ==
    IF e \notin DOMAIN events THEN ts
    ELSE LET with_results == SelectSeq(order, LAMBDA t : t \in TeamsWithResults(ts))
         IN  UpdateTeamLoop(ts, SortedResults(with_results, "Track"),
                            events[e].point_allocation, Len(with_results))

\* The tables with every event recomputed once.
RECURSIVE AllRanked(_, _)
AllRanked(rs, es) ==
    IF es = {} THEN rs
    ELSE LET e == CHOOSE x \in es : TRUE
             order == CHOOSE o \in FetchOrders(EventResults(rs, e)) : TRUE
         IN  AllRanked(CalculatePositionsAndPoints(rs, e, order, Len(order)), es \ {e})

RECURSIVE AllTeamsRanked(_, _)
AllTeamsRanked(ts, es) ==
    IF es = {} THEN ts
    ELSE LET e == CHOOSE x \in es : TRUE
             order == CHOOSE o \in FetchOrders(EventTeams(ts, e)) : TRUE
         IN  AllTeamsRanked(CalculateRelayPositionsAndPoints(ts, e, order), es \ {e})

\* Results entered in the individual events 1 and 2 and, through the same
\* form, against the relay event 3; relay teams of events 3 and 4, one of
\* them without a time.
EnteredResults ==
    {NewResult(1, "s1", 1, 1234), NewResult(2, "s2", 1, 1102), NewResult(3, "s3", 1, 1350),
     NewResult(4, "s1", 2, 520), NewResult(5, "s2", 2, 610), NewResult(6, "s2", 3, 4500)}

EnteredTeams ==
    {RelayTeam(1, "Ignis", 3, 4500), RelayTeam(2, "Nereus", 3, 4450),
     RelayTeam(3, "Ignis", 4, 4450), RelayTeam(4, "Ventus", 4, 0)}

\* Some of these results and teams are stored, every event ranked.
InitStandings ==
    /\ events = DisjointEvents
    /\ \E rs \in SUBSET EnteredResults : results = AllRanked(rs, DOMAIN events)
    /\ \E ts \in SUBSET EnteredTeams : relay_teams = AllTeamsRanked(ts, DOMAIN events)
    /\ nextResultId = 7
    /\ last = NoOp
    /\ prev = results
    /\ prev_teams = relay_teams
    /\ calls = [c \in Clients |-> Idle]
    /\ entry = NoEntry
    /\ before = Outcome(NoOp)
    /\ house_points = <<>>
    /\ performance_list = <<>>

\* The relay flag of the joined event never set.
IsRelayEventNever(event_data) == FALSE

\* event_data.get("is_relay", False)
IsRelayEvent(event_data) == "is_relay" \in DOMAIN event_data /\ event_data.is_relay

\* A linked row that is not there: {} in the code.
NoData == [k \in {} |-> 0]

\* result.get("students", {}) and result.get("events", {}): the linked rows
\* that the select embeds in a result
StudentData(result) ==
    IF result.curtin_id \in Students
    THEN [curtin_id |-> result.curtin_id, house |-> HouseOf(result.curtin_id),
          gender |-> Gender(result.curtin_id)]
    ELSE NoData

EventData(result) ==
    IF result.event_id \in DOMAIN events THEN events[result.event_id] ELSE NoData

\* student_data.get("house", "Unknown")
HouseOfStudent(student_data) ==
    IF "house" \in DOMAIN student_data THEN student_data.house ELSE "Unknown"

\* select(points, students!inner(house), events!inner(is_relay)) on
\* "results": the rows whose student and event exist
InnerJoined(rs) == {r \in rs : r.curtin_id \in Students /\ r.event_id \in DOMAIN events}

\* What the select hands to the loops: the joined rows, or every row, one
\* without its student or event carrying an empty link (the case that the
\* loops provide for).
Selected(rs) == {InnerJoined(rs), rs}

\* house_totals[house][kind] += points, the house entered when it is new
Credit(totals, house, kind, points) ==
    LET known == IF \E i \in DOMAIN totals : totals[i].house = house
                 THEN totals
                 ELSE Append(totals, [house |-> house, individual_points |-> 0,
                                      relay_team_points |-> 0])
        i == CHOOSE j \in DOMAIN known : known[j].house = house
    IN  [known EXCEPT ![i] =
           IF kind = "individual"
           THEN [@ EXCEPT !.individual_points = @ + points]
           ELSE [@ EXCEPT !.relay_team_points = @ + points]]

\* the loop over the results: those of relay events are skipped
RECURSIVE CreditResults(_, _)
CreditResults(totals, rows) ==
    IF rows = <<>> THEN totals
    ELSE LET result == Head(rows)
         IN  CreditResults(IF IsRelayEvent(EventData(result))
                           THEN totals
                           ELSE Credit(totals, HouseOfStudent(StudentData(result)),
                                       "individual", result.points),
                           Tail(rows))

\* A loop that books the points of the relay teams as individual points.
RECURSIVE CreditTeamsAsIndividual(_, _)
CreditTeamsAsIndividual(totals, teams) ==
    IF teams = <<>> THEN totals
    ELSE CreditTeamsAsIndividual(Credit(totals, Head(teams).house, "individual",
                                        Head(teams).points),
                                 Tail(teams))

\* the loop over the relay teams
RECURSIVE CreditTeams(_, _)
CreditTeams(totals, teams) ==
    IF teams = <<>> THEN totals
    ELSE CreditTeams(Credit(totals, Head(teams).house, "relay", Head(teams).points),
                     Tail(teams))

\* the list built from house_totals in the order the houses were entered
HouseList(totals) ==
    [i \in DOMAIN totals |->
        [house |-> totals[i].house,
         total_points |-> totals[i].individual_points + totals[i].relay_team_points,
         individual_points |-> totals[i].individual_points,
         relay_team_points |-> totals[i].relay_team_points]]

\* A sort that puts a house before the first house of as many points or fewer.
RECURSIVE SortedByTotalTiesReversed(_)
SortedByTotalTiesReversed(s) ==
    IF s = <<>> THEN <<>>
    ELSE LET front == SortedByTotalTiesReversed(SubSeq(s, 1, Len(s) - 1))
             x == s[Len(s)]
             after == {i \in DOMAIN front : front[i].total_points <= x.total_points}
             p == IF after = {} THEN Len(front) + 1 ELSE Min(after)
         IN  SubSeq(front, 1, p - 1) \o <<x>> \o SubSeq(front, p, Len(front))

\* house_list.sort(key=total_points, reverse=True): stable, so a house goes
\* before the first house of fewer points
RECURSIVE SortedByTotal(_)
SortedByTotal(s) ==
    IF s = <<>> THEN <<>>
    ELSE LET front == SortedByTotal(SubSeq(s, 1, Len(s) - 1))
             x == s[Len(s)]
             after == {i \in DOMAIN front : front[i].total_points < x.total_points}
             p == IF after = {} THEN Len(front) + 1 ELSE Min(after)
         IN  SubSeq(front, 1, p - 1) \o <<x>> \o SubSeq(front, p, Len(front))

\* get_house_points without the view: the list returned for the rows of
\* results and of relay_teams as the selects returned them
GetHousePoints(individual_results, relay_results) ==
    SortedByTotal(HouseList(CreditTeams(CreditResults(<<>>, individual_results),
                                        relay_results)))

\* The houses of the rows that the two loops credit, in the order of the
\* loops: the results of the events that are not relays, then the teams.
HousesMet(individual_results, relay_results) ==
    LET counted == SelectSeq(individual_results,
                             LAMBDA r : ~IsRelayEvent(EventData(r)))
    IN  [i \in DOMAIN counted |-> HouseOfStudent(StudentData(counted[i]))]
        \o [i \in DOMAIN relay_results |-> relay_results[i].house]

\* The tables are read by one request; a read leaves them as they are, so a
\* later request is served as a first one is.
NotReadYet ==
    last.op \notin {"get_house_points", "get_individual_athlete_performance",
                    "show_gender_rankings"}

\* a call of get_house_points
HousePointsManual ==
    /\ NotReadYet
    /\ \E rows \in Selected(results) :
       \E individual_results \in FetchOrders(rows) :
       \E relay_results \in FetchOrders(relay_teams) :
         /\ house_points' = GetHousePoints(individual_results, relay_results)
         /\ last' = [NoOp EXCEPT !.op = "get_house_points"]
                    @@ [met |-> HousesMet(individual_results, relay_results)]
    /\ UNCHANGED <<events, results, nextResultId, prev, calls, entry, before,
                   relay_teams, prev_teams, performance_list>>

\* ---------------------------------------------------- the athlete leaderboard
\* athlete_performance[key] as it is entered for a student
NewAthlete(student_data) ==
    [curtin_id |-> student_data.curtin_id, house |-> student_data.house,
     gender |-> student_data.gender, total_events |-> 0, total_points |-> 0,
     gold_medals |-> 0, silver_medals |-> 0, bronze_medals |-> 0]

\* Stats that count a medal for every result.
AddStatsMedalForEveryResult(athlete, result) ==
    [athlete EXCEPT !.total_events = @ + 1,
                    !.total_points = @ + result.points,
                    !.gold_medals = @ + 1]

\* the stats of one result added to its athlete
AddStats(athlete, result) ==
    [athlete EXCEPT !.total_events = @ + 1,
                    !.total_points = @ + result.points,
                    !.gold_medals = IF result.position = 1 THEN @ + 1 ELSE @,
                    !.silver_medals = IF result.position = 2 THEN @ + 1 ELSE @,
                    !.bronze_medals = IF result.position = 3 THEN @ + 1 ELSE @]

\* the loop that groups the results by student: a result of a relay event
\* and a result without a student key are skipped
RECURSIVE GroupByStudent(_, _)
GroupByStudent(athletes, rows) ==
    IF rows = <<>> THEN athletes
    ELSE LET result == Head(rows)
             student_data == StudentData(result)
             known == IF \E i \in DOMAIN athletes :
                             athletes[i].curtin_id = student_data.curtin_id
                      THEN athletes
                      ELSE Append(athletes, NewAthlete(student_data))
             i == CHOOSE j \in DOMAIN known : known[j].curtin_id = student_data.curtin_id
         IN  GroupByStudent(IF \/ IsRelayEvent(EventData(result))
                               \/ "curtin_id" \notin DOMAIN student_data
                            THEN athletes
                            ELSE [known EXCEPT ![i] = AddStats(@, result)],
                            Tail(rows))

\* An order by total_points alone.
TotalPointsOnly(a, b) == a.total_points < b.total_points

\* the sort key (total_points, gold_medals): a is behind b
Behind(a, b) ==
    \/ a.total_points < b.total_points
    \/ a.total_points = b.total_points /\ a.gold_medals < b.gold_medals

\* performance_list.sort(key=(total_points, gold_medals), reverse=True):
\* stable, so an athlete goes before the first athlete behind
RECURSIVE SortedByPerformance(_)
SortedByPerformance(s) ==
    IF s = <<>> THEN <<>>
    ELSE LET front == SortedByPerformance(SubSeq(s, 1, Len(s) - 1))
             x == s[Len(s)]
             after == {i \in DOMAIN front : Behind(front[i], x)}
             p == IF after = {} THEN Len(front) + 1 ELSE Min(after)
         IN  SubSeq(front, 1, p - 1) \o <<x>> \o SubSeq(front, p, Len(front))

\* athlete["overall_rank"] = i + 1
WithOverallRank(s) == [i \in DOMAIN s |-> s[i] @@ [overall_rank |-> i]]

\* performance_list[:limit] if limit else performance_list (None is 0 here)
Limited(s, limit) ==
    IF limit = 0 THEN s
    ELSE SubSeq(s, 1, IF limit < Len(s) THEN limit ELSE Len(s))

\* get_individual_athlete_performance without the view, for the rows as
\* the select returned them
GetIndividualAthletePerformance(rows, limit) ==
    Limited(WithOverallRank(SortedByPerformance(GroupByStudent(<<>>, rows))), limit)

\* The limits the pages pass: none, the top one or two, the overall top 50.
Limits == {0, 1, 2, 50}

\* a call of get_individual_athlete_performance(limit)
AthletePerformanceManual ==
    /\ NotReadYet
    /\ \E rows \in Selected(results) :
       \E fetched \in FetchOrders(rows) :
         LET unlimited == GetIndividualAthletePerformance(fetched, 0)
         IN  \E limit \in Limits :
               /\ performance_list' = GetIndividualAthletePerformance(fetched, limit)
               /\ last' = [NoOp EXCEPT !.op = "get_individual_athlete_performance"]
                          @@ [limit |-> limit, ranked |-> unlimited]
    /\ UNCHANGED <<events, results, nextResultId, prev, calls, entry, before,
                   relay_teams, prev_teams, house_points>>

\* [a for a in all_athletes if a.get('gender') == gender][:display_limit]
GenderAthletes(all_athletes, gender, display_limit) ==
    Limited(SelectSeq(all_athletes, LAMBDA a : a.gender = gender), display_limit)

\* show_gender_rankings(gender) with its filters as the page opens: every
\* house, the top 10
ShowGenderRankings ==
    /\ NotReadYet
    /\ \E rows \in Selected(results) :
       \E fetched \in FetchOrders(rows) :
       \E gender \in {"Male", "Female"} :
         LET all_athletes == GetIndividualAthletePerformance(fetched, 0)
         IN  /\ performance_list' = GenderAthletes(all_athletes, gender, 10)
             /\ last' = [NoOp EXCEPT !.op = "show_gender_rankings"]
                        @@ [gender |-> gender, ranked |-> all_athletes]
    /\ UNCHANGED <<events, results, nextResultId, prev, calls, entry, before,
                   relay_teams, prev_teams, house_points>>

\* --------------------------------------------- results without their links
\* Results of events 1 and 2, one of them of an athlete "s9" who has no row
\* in "students" (add_result looks no student up).
OrphanEntered ==
    {NewResult(1, "s1", 1, 1234), NewResult(2, "s2", 1, 1102),
     NewResult(3, "s3", 2, 610), NewResult(4, "s9", 2, 520)}

\* Three or four of these results are stored and ranked, and at most one
\* relay team.
InitOrphans ==
    /\ events = DisjointEvents
    /\ \E rs \in SUBSET OrphanEntered :
         /\ Cardinality(rs) >= 3
         /\ results = AllRanked(rs, DOMAIN events)
    /\ \E ts \in SUBSET {RelayTeam(1, "Ignis", 3, 4500)} :
         relay_teams = AllTeamsRanked(ts, DOMAIN events)
    /\ nextResultId = 5
    /\ last = NoOp
    /\ prev = results
    /\ prev_teams = relay_teams
    /\ calls = [c \in Clients |-> Idle]
    /\ entry = NoEntry
    /\ before = Outcome(NoOp)
    /\ house_points = <<>>
    /\ performance_list = <<>>

\* delete_event(event_id): the row of "events" is deleted, the results of
\* the event are left in "results"
DeleteEvent(e) ==
    /\ e \in DOMAIN events
    /\ events' = [d \in DOMAIN events \ {e} |-> events[d]]
    /\ last' = [NoOp EXCEPT !.op = "delete_event", !.event_id = e]
    /\ house_points' = <<>>
    /\ performance_list' = <<>>
    /\ UNCHANGED <<results, nextResultId, prev, calls, entry, before,
                   relay_teams, prev_teams>>

OrphansDeleteEvent == \E e \in {1, 2, 3} : DeleteEvent(e)

NextOrphans ==
    \/ OrphansDeleteEvent
    \/ HousePointsManual
    \/ AthletePerformanceManual

SpecOrphans == InitOrphans /\ [][NextOrphans]_vars

NextStandings ==
    \/ HousePointsManual
    \/ AthletePerformanceManual
    \/ ShowGenderRankings

SpecStandings == InitStandings /\ [][NextStandings]_vars

\* --------------------------------------------- the normalizer and formatter
\* utils.py: a text is the sequence of its characters; a float is a record
\* with its value in hundredths (v), or not-a-number (nan).  The texts drawn
\* below carry at most two decimals, so every value is a whole number of
\* hundredths.
MaxParts == 3     \* colon-separated parts of a typed text

DigitChars == {"0", "1", "2", "3", "4", "5", "6", "7", "8", "9"}

DigitValue(c) == CASE c = "0" -> 0 [] c = "1" -> 1 [] c = "2" -> 2 [] c = "3" -> 3
                   [] c = "4" -> 4 [] c = "5" -> 5 [] c = "6" -> 6 [] c = "7" -> 7
                   [] c = "8" -> 8 [] c = "9" -> 9

\* The characters of str(n) for a non-negative integer n.
RECURSIVE DigitsOf(_)
DigitsOf(n) == IF n < 10 THEN <<Digit(n)>> ELSE DigitsOf(n \div 10) \o <<Digit(n % 10)>>

\* f"{value:.2f}" of a non-negative value given in hundredths
Fixed2(x) == DigitsOf(x \div 100) \o <<".">> \o <<Digit((x % 100) \div 10), Digit(x % 10)>>

\* f"{value:05.2f}": the same, padded with zeros to five characters
Fixed2Width5(x) == IF x < 1000 THEN <<"0">> \o Fixed2(x) ELSE Fixed2(x)

\* format_time_for_display(seconds)
FormatTimeForDisplay(x) ==
    IF x < 6000
    THEN Fixed2(x) \o <<"s">>
    ELSE DigitsOf(x \div 6000) \o <<":">> \o Fixed2Width5(x % 6000)

\* format_result_value(value, event_type)
FormatResultValue(x, event_type) ==
    IF event_type = "Track" THEN FormatTimeForDisplay(x) ELSE Fixed2(x) \o <<"m">>

\* str.strip()
RECURSIVE StripLeft(_)
StripLeft(t) == IF t # <<>> /\ t[1] = " " THEN StripLeft(Tail(t)) ELSE t

RECURSIVE StripRight(_)
StripRight(t) ==
    IF t # <<>> /\ t[Len(t)] = " " THEN StripRight(SubSeq(t, 1, Len(t) - 1)) ELSE t

Strip(t) == StripRight(StripLeft(t))

\* c in text
Contains(t, c) == \E i \in DOMAIN t : t[i] = c

\* text.split(c)
RECURSIVE Split(_, _)
Split(t, c) ==
    IF ~Contains(t, c) THEN <<t>>
    ELSE LET i == Min({j \in DOMAIN t : t[j] = c})
         IN  <<SubSeq(t, 1, i - 1)>> \o Split(SubSeq(t, i + 1, Len(t)), c)

AllDigits(ds) == \A i \in DOMAIN ds : ds[i] \in DigitChars

\* The number a sequence of digits writes.
RECURSIVE Decimal(_)
Decimal(ds) ==
    IF ds = <<>> THEN 0
    ELSE Decimal(SubSeq(ds, 1, Len(ds) - 1)) * 10 + DigitValue(ds[Len(ds)])

\* The hundredths that the digits after the point write (two at most).
HundredthsOf(ds) ==
    CASE Len(ds) = 0 -> 0 [] Len(ds) = 1 -> Decimal(ds) * 10 [] Len(ds) = 2 -> Decimal(ds)

Rejected == [ok |-> FALSE, nan |-> FALSE, v |-> 0]

Number(v) == [ok |-> TRUE, nan |-> FALSE, v |-> v]

NotANumber == [ok |-> TRUE, nan |-> TRUE, v |-> 0]

\* float() of a text without sign and surrounding blanks: "nan", or digits
\* with at most one point and at least one digit.
UnsignedFloat(t) ==
    IF t = <<"n", "a", "n">> THEN NotANumber
    ELSE IF Contains(t, ".")
    THEN LET parts == Split(t, ".")
         IN  IF /\ Len(parts) = 2
                /\ AllDigits(parts[1]) /\ AllDigits(parts[2])
                /\ Len(parts[1]) + Len(parts[2]) >= 1
             THEN Number(Decimal(parts[1]) * 100 + HundredthsOf(parts[2]))
             ELSE Rejected
    ELSE IF t # <<>> /\ AllDigits(t) THEN Number(Decimal(t) * 100)
    ELSE Rejected

\* float(text): ok is FALSE where Python raises ValueError
ParseFloat(t) ==
    LET s == Strip(t)
    IN  IF s # <<>> /\ s[1] = "-"
        THEN LET f == UnsignedFloat(Tail(s)) IN [f EXCEPT !.v = 0 - f.v]
        ELSE IF s # <<>> /\ s[1] = "+" THEN UnsignedFloat(Tail(s))
        ELSE UnsignedFloat(s)

\* Python's comparisons of a float with a number h of hundredths: every
\* comparison with nan is False.
Below(f, h) == ~f.nan /\ f.v < h

AtMost(f, h) == ~f.nan /\ f.v <= h

AtLeast(f, h) == ~f.nan /\ f.v >= h

Above(f, h) == ~f.nan /\ f.v > h

\* minutes * 60 + seconds
TotalSeconds(minutes, seconds) ==
    IF minutes.nan \/ seconds.nan THEN NotANumber
    ELSE Number(minutes.v * 60 + seconds.v)

\* parse_time_input(time_str): ok is FALSE where it raises ValueError
ParseTimeInput(time_str) ==
    LET s == Strip(time_str)
    IN  IF Contains(s, ":")
        THEN LET parts == Split(s, ":")
             IN  IF Len(parts) # 2 THEN Rejected
                 ELSE LET minutes == ParseFloat(parts[1])
                          seconds == ParseFloat(parts[2])
                      IN  IF ~minutes.ok \/ ~seconds.ok THEN Rejected
                          ELSE IF \/ Below(minutes, 0) \/ Below(seconds, 0)
                                  \/ AtLeast(seconds, 6000)
                          THEN Rejected
                          ELSE TotalSeconds(minutes, seconds)
        ELSE LET seconds == ParseFloat(s)
             IN  IF ~seconds.ok THEN Rejected
                 ELSE IF AtMost(seconds, 0) THEN Rejected
                 ELSE seconds

\* validate_distance_input(distance_str): the float read, ok where it is > 0
ValidateDistanceInput(distance_str) ==
    LET distance == ParseFloat(distance_str)
    IN  IF distance.ok /\ Above(distance, 0) THEN distance ELSE Rejected

\* The parts a typed text is made of: numbers with and without decimals, a
\* sign and blanks, zero, 59 and 60 seconds, "nan", a letter, nothing.
Parts ==
    {<<>>, <<"0">>, <<"0", "0">>, <<"5">>, <<"5", "9">>, <<"6", "0">>,
     <<"1", ".", "5">>, <<"1", "2", ".", "3", "4">>, <<"-", "1">>, <<"-", "0">>,
     <<" ", "7", " ">>, <<"n", "a", "n">>, <<"x">>}

\* The texts of n parts joined by colons.
RECURSIVE Joined(_)
Joined(n) ==
    IF n = 1 THEN Parts
    ELSE {t \o <<":">> \o p : t \in Joined(n - 1), p \in Parts}

TypedTexts == UNION {Joined(n) : n \in 1..MaxParts}

\* The canonical measurements displayed, in hundredths: times under and from
\* a minute on, distances.
StoredValues(event_type) ==
    IF event_type = "Track" THEN TrackValues \cup {5999, 6000, 6500, 8345, 60007}
    ELSE FieldValues

\* A text typed into a form, or a stored value about to be displayed.
InitNormalizer ==
    /\ events = [e \in {} |-> 0]
    /\ results = {}
    /\ nextResultId = 1
    /\ last = NoOp
    /\ prev = {}
    /\ calls = [c \in Clients |-> Idle]
    /\ before = Outcome(NoOp)
    /\ relay_teams = {}
    /\ prev_teams = {}
    /\ house_points = <<>>
    /\ performance_list = <<>>
    /\ \/ \E t \in TypedTexts :
            entry = [NoEntry EXCEPT !.pc = "text", !.origin = "typed", !.text = t]
       \/ \E event_type \in EventTypes : \E x \in StoredValues(event_type) :
            entry = [NoEntry EXCEPT !.pc = "value", !.origin = "stored",
                                    !.event_type = event_type, !.x = x]

\* the display of a stored value: format_result_value
FormatValue ==
    /\ entry.pc = "value"
    /\ entry' = [entry EXCEPT !.pc = "text",
                              !.text = FormatResultValue(entry.x, entry.event_type)]
    /\ UNCHANGED <<events, results, nextResultId, last, prev, calls, before,
                   relay_teams, prev_teams, house_points, performance_list>>

\* the text read as a time: parse_time_input
ParseTime ==
    /\ entry.pc = "text"
    /\ entry.origin = "stored" => entry.event_type = "Track"
    /\ LET parsed == ParseTimeInput(entry.text)
       IN  entry' = [entry EXCEPT !.pc = "time", !.ok = parsed.ok,
                                  !.nan = parsed.nan, !.v = parsed.v]
    /\ UNCHANGED <<events, results, nextResultId, last, prev, calls, before,
                   relay_teams, prev_teams, house_points, performance_list>>

\* the text read as a distance: validate_distance_input
ValidateDistance ==
    /\ entry.pc = "text"
    /\ entry.origin = "stored" => entry.event_type = "Field"
    /\ LET parsed == ValidateDistanceInput(entry.text)
       IN  entry' = [entry EXCEPT !.pc = "distance", !.ok = parsed.ok,
                                  !.nan = parsed.nan, !.v = parsed.v]
    /\ UNCHANGED <<events, results, nextResultId, last, prev, calls, before,
                   relay_teams, prev_teams, house_points, performance_list>>

NextNormalizer ==
    \/ FormatValue
    \/ ParseTime
    \/ ValidateDistance

SpecNormalizer == InitNormalizer /\ [][NextNormalizer]_vars

\* ------------------------------------------------- a meet with relay events
\* database.py and the pages that call it: relay teams are registered and
\* timed, events are re-ranked one by one or all at once, a result is
\* submitted through the form, the standings are read.
MaxTeams == 2     \* relay teams ever registered (team_id is a serial key)

\* The arguments of the calls of add_relay_team, in the order of the calls:
\* a member twice and an unknown id; a member missing and members of
\* another house; a house with fewer than four athletes.
TeamInputs ==
    <<[house |-> "Ignis", event_id |-> 3, members |-> <<"s1", "s2", "s1", "s9">>],
      [house |-> "Nereus", event_id |-> 3, members |-> <<"s3", "s1", "s2", "">>],
      [house |-> "Nereus", event_id |-> 4, members |-> <<"s3", "s3", "s3", "s3">>]>>

\* Times that the relay page passes on: 44.50, 45.00, and the 0.0 that
\* parse_time_input makes of "0:00".
RelayTimes == {4450, 4500, 0}

\* The events of the meet, and an id that no event has.
RecomputeIds == DOMAIN DisjointEvents \cup {5}

\* Two results of event 1, as entered or as ranked.
InitMeet ==
    /\ events = DisjointEvents
    /\ LET entered == {NewResult(1, "s1", 1, 1234), NewResult(2, "s2", 1, 1102)}
       IN  results \in {entered, AllRanked(entered, {1})}
    /\ nextResultId = 3
    /\ last = NoOp
    /\ prev = results
    /\ calls = [c \in Clients |-> Idle]
    /\ ApartInit

\* add_relay_team(team_name, house, event_id, member1_id, .., member4_id)
AddRelayTeam(id, input) ==
    /\ relay_teams' = relay_teams \cup {RelayTeam(id, input.house, input.event_id, 0)
                                        @@ [members |-> input.members]}
    /\ last' = [NoOp EXCEPT !.op = "add_relay_team", !.event_id = input.event_id]
               @@ [team_id |-> id]
    /\ UNCHANGED <<events, results, nextResultId, prev, prev_teams, calls, entry, before,
                   performance_list>>

\* update({"result_value": float(result_value)}).eq("team_id", team_id)
UpdateTeamResult(ts, team_id, v) ==
    {IF t.team_id = team_id THEN [t EXCEPT !.result_value = v] ELSE t : t \in ts}

\* add_relay_team_result(team_id, result_value), the store without the
\* function calculate_relay_team_points: the time is stored and the team's
\* event re-ranked by _calculate_relay_positions_and_points
AddRelayTeamResult(team_id, v) ==
    /\ LET found == {t \in relay_teams : t.team_id = team_id}
           updated == UpdateTeamResult(relay_teams, team_id, v)
       IN  IF found = {}
           THEN /\ relay_teams' = relay_teams
                /\ last' = [NoOp EXCEPT !.op = "add_relay_team_result", !.ret = FALSE]
                           @@ [team_id |-> team_id]
           ELSE LET e == (CHOOSE t \in found : TRUE).event_id
                IN  \E order \in FetchOrders(EventTeams(updated, e)) :
                      /\ relay_teams' = CalculateRelayPositionsAndPoints(updated, e, order)
                      /\ last' = [NoOp EXCEPT !.op = "add_relay_team_result",
                                              !.event_id = e]
                                 @@ [team_id |-> team_id]
    /\ UNCHANGED <<events, results, nextResultId, prev, prev_teams, calls, entry, before,
                   performance_list>>

\* a direct call of _calculate_relay_positions_and_points(e)
RelayRecompute(e) ==
    /\ \E order \in FetchOrders(EventTeams(relay_teams, e)) :
         relay_teams' = CalculateRelayPositionsAndPoints(relay_teams, e, order)
    /\ last' = [NoOp EXCEPT !.op = "relay_recompute", !.event_id = e]
    /\ UNCHANGED <<events, results, nextResultId, prev, prev_teams, calls, entry, before,
                   performance_list>>

\* recalculate_all_points(), the store without the function
\* recalculate_all_points_correct: rpc raises, the warning is logged, and
\* the method ends without a return statement
RecalculateAllPoints ==
    /\ last' = [NoOp EXCEPT !.op = "recalculate_all_points"] @@ [returned |-> "None"]
    /\ UNCHANGED <<events, results, nextResultId, prev, prev_teams, calls, entry, before,
                   relay_teams, performance_list>>

\* What is typed into the result form: a time as text for a Track event, a
\* distance of 0.01 or more for a Field event.
FormEntries(event_type) ==
    IF event_type = "Track"
    THEN {<<"1", "2", ".", "3", "4">>, <<"1", ":", "0", "5">>, <<"x">>}
    ELSE FieldValues

\* processed_result of the form; ok is FALSE where ValueError is raised
ProcessedResult(event_type, result_value) ==
    IF event_type = "Track" THEN ParseTimeInput(result_value) ELSE Number(result_value)

\* the submit of show_result_entry_form for an athlete found by bib id: it
\* ends in db.add_result(curtin_id=, event_id=, result_value=); the
\* parameter house of add_result has no default, so Python raises TypeError
\* before the method's body runs, and the form shows the error
SubmitResultForm(s, e, result_value) ==
    /\ LET processed == ProcessedResult(events[e].event_type, result_value)
       IN  last' = [op |-> "show_result_entry_form", event_id |-> e,
                    ret |-> FALSE, recompute |-> "none",
                    existed |-> HasResult(s, e), ranked_before |-> FALSE,
                    result_id |-> 0, curtin_id |-> s,
                    valid |-> processed.ok /\ ~processed.nan /\ processed.v > 0,
                    raised |-> IF processed.ok THEN "TypeError" ELSE "ValueError"]
    /\ UNCHANGED <<events, results, nextResultId, prev, prev_teams, calls, entry, before,
                   relay_teams, performance_list>>

\* The standings read before an operation are not kept beyond it.
StandingsDropped == house_points' = <<>>

\* the store hands out the next team_id
MeetAddRelayTeam ==
    LET id == Cardinality(relay_teams) + 1
    IN  /\ id <= MaxTeams
        /\ id \in DOMAIN TeamInputs
        /\ AddRelayTeam(id, TeamInputs[id])
        /\ StandingsDropped

MeetAddRelayTeamResult ==
    \E team_id \in 1..MaxTeams, v \in RelayTimes :
        AddRelayTeamResult(team_id, v) /\ StandingsDropped

MeetRelayRecompute == \E e \in RecomputeIds : RelayRecompute(e) /\ StandingsDropped

MeetRecompute ==
    \E e \in RecomputeIds :
        /\ Recompute(e)
        /\ StandingsDropped
        /\ UNCHANGED <<calls, entry, before, relay_teams, prev_teams, performance_list>>

MeetRecalculateAllPoints == RecalculateAllPoints /\ StandingsDropped

\* The form is submitted for an athlete with a result in event 1 and for one
\* without.
MeetSubmitResultForm ==
    \E s \in {"s2", "s3"}, e \in {1, 2} :
        \E result_value \in FormEntries(events[e].event_type) :
            SubmitResultForm(s, e, result_value) /\ StandingsDropped

NextMeet ==
    \/ MeetAddRelayTeam
    \/ MeetAddRelayTeamResult
    \/ MeetRelayRecompute
    \/ MeetRecompute
    \/ MeetRecalculateAllPoints
    \/ MeetSubmitResultForm
    \/ HousePointsManual

SpecMeet == InitMeet /\ [][NextMeet]_vars

\* ------------------------------------------------------------------ claims
\* The last operation ran the recompute of its event to the end.
Completed == last.recompute = "complete"

\* The rows of that event now, and when the operation was called.
Group == EventResults(results, last.event_id)

PrevGroup == EventResults(prev, last.event_id)

Table == events[last.event_id].point_allocation

EventType == events[last.event_id].event_type

\* The table's points of position p as the allocation is stored.
TablePoints(table, p) == IF \E k \in DOMAIN table : k = Str(p) THEN table[Str(p)] ELSE 0

\* C1: after a recompute that ran to the end, the positions of the N rows of
\* the event are exactly 1..N, each once; a recompute of an empty group
\* writes nothing.
C1_PositionsArePermutation ==
    Completed =>
        /\ {r.position : r \in Group} = 1..Cardinality(Group)
        /\ \A a, b \in Group : a.position = b.position => a = b
        /\ (last.op = "recompute" /\ Group = {}) => results = prev

C1_Witness == Completed /\ Cardinality(Group) = 3

\* C2: after a completed recompute of a Track event a smaller value has the
\* smaller position; of a Field event a greater value has the smaller position.
C2_OrderedByValue ==
    Completed =>
        \A a, b \in Group :
            /\ (EventType = "Track" /\ a.result_value < b.result_value)
                   => a.position < b.position
            /\ (EventType = "Field" /\ a.result_value > b.result_value)
                   => a.position < b.position

\* Times 12.34, 11.02, 13.50 entered in that order hold positions 2, 1, 3.
C2_Witness ==
    /\ Completed /\ EventType = "Track"
    /\ {<<r.result_id, r.result_value, r.position>> : r \in Group}
           = {<<1, 1234, 2>>, <<2, 1102, 1>>, <<3, 1350, 3>>}

\* C3: a recompute that follows a completed recompute of the same event, with
\* no insertion or deletion in between, leaves every row's position and
\* points as they were.
C3_RecomputeIdempotent ==
    (last.op = "recompute" /\ Completed /\ last.ranked_before) => results = prev

\* C4: after a completed recompute every row's points are the table's entry
\* for its position, and 0 when the table has no entry for it.
C4_PointsFromTable ==
    Completed => \A r \in Group : r.points = TablePoints(Table, r.position)

C4_Witness ==
    /\ Completed
    /\ \E r \in Group : Str(r.position) \notin DOMAIN Table /\ r.points = 0
    /\ \E r \in Group : Str(r.position) \in DOMAIN Table /\ r.points > 0

\* The positions the add-event form offers.
FormPositions == 8

\* The table never gives a later position more points than an earlier one.
NonIncreasing(table) ==
    \A p, q \in 1..FormPositions :
        p < q => TablePoints(table, p) >= TablePoints(table, q)

\* C5 as stated: for any stored table, a smaller position never has fewer
\* points after a completed recompute.
C5_PointsMonotoneAnyTable ==
    Completed =>
        \A a, b \in Group : a.position < b.position => a.points >= b.points

\* C5 amended: the same for the tables whose points do not increase with the
\* position (an absent position counting 0).
C5_PointsMonotoneNonIncreasingTable ==
    (Completed /\ NonIncreasing(Table)) =>
        \A a, b \in Group : a.position < b.position => a.points >= b.points

C5_Witness ==
    /\ Completed /\ NonIncreasing(Table)
    /\ \E a, b \in Group : a.position < b.position /\ a.points > b.points

\* C6: rows of equal value hold distinct adjacent positions in the order of
\* their insertion (result_id is the serial key of the insertion).
C6_TiesInInsertionOrder ==
    Completed =>
        \A a, b \in Group :
            (a.result_value = b.result_value /\ a.result_id < b.result_id)
                => a.position < b.position

\* C7: in an individual event each gender is ranked on its own: a gender with
\* a row in the event has a row at position 1.
C7_RankedPerGender ==
    (Completed /\ ~events[last.event_id].is_relay) =>
        \A g \in {"Male", "Female"} :
            (\E r \in Group : Gender(r.curtin_id) = g)
                => \E r \in Group : Gender(r.curtin_id) = g /\ r.position = 1

\* C8: add_result for a pair that has a row returns failure, runs no
\* recompute and leaves the table as it was.
C8_DuplicateRejected ==
    (last.op = "add_result" /\ last.existed) =>
        /\ ~last.ret
        /\ last.recompute = "none"
        /\ results = prev

C8_Witness == last.op = "add_result" /\ last.existed /\ Cardinality(results) >= 2

\* C10: delete_result of a stored row removes that row alone and re-ranks the
\* event: the rows left keep their relative order, hold positions 1..N-1 and
\* the table's points of these positions.
C10_DeleteReranks ==
    (last.op = "delete_result" /\ last.ret) =>
        /\ {r.result_id : r \in results}
               = {r.result_id : r \in prev} \ {last.result_id}
        /\ {r.position : r \in Group} = 1..Cardinality(Group)
        /\ \A r \in Group : r.points = TablePoints(Table, r.position)
        /\ \A a, b \in Group : \A pa, pb \in PrevGroup :
               (pa.result_id = a.result_id /\ pb.result_id = b.result_id
                /\ pa.position < pb.position) => a.position < b.position

\* C11: delete_result of an id that no stored row has returns failure, runs
\* no recompute, and leaves every table as it was.
C11_DeleteUnknownIsNoOp ==
    (last.op = "delete_result" /\ ~last.existed) =>
        /\ ~last.ret
        /\ last.recompute = "none"
        /\ results = prev

\* An id that was deleted before is asked for again while rows remain.
C11_Witness ==
    /\ last.op = "delete_result" /\ ~last.existed
    /\ last.result_id < nextResultId
    /\ Cardinality(results) >= 1

\* The text has been read, as a time or as a distance.
Read == entry.pc \in {"time", "distance"}

\* C12: no text that the normalizer accepts, as a time in either shape or as
\* a distance, yields a value that is zero or negative.
C12_AcceptedArePositive ==
    (Read /\ entry.origin = "typed" /\ entry.ok) => (~entry.nan /\ entry.v > 0)

\* The colon-separated parts of the text read, as floats.
EntryParts == Split(Strip(entry.text), ":")

\* The text read has the M:SS.ss shape with parts that are numbers, not
\* negative, and seconds below 60.
WellFormedTime ==
    /\ Len(EntryParts) = 2
    /\ \A i \in 1..2 : LET f == ParseFloat(EntryParts[i])
                       IN  f.ok /\ ~f.nan /\ f.v >= 0
    /\ ParseFloat(EntryParts[2]).v < 6000

\* C13: a text with a colon is accepted as a time exactly when it has one
\* colon, both parts are numbers that are not negative and the seconds are
\* below 60; the time is then minutes * 60 + seconds.
C13_ColonShape ==
    (entry.pc = "time" /\ entry.origin = "typed" /\ Contains(entry.text, ":")) =>
        /\ entry.ok <=> WellFormedTime
        /\ entry.ok =>
              /\ ~entry.nan
              /\ entry.v = ParseFloat(EntryParts[1]).v * 60 + ParseFloat(EntryParts[2]).v

\* C14: the text the formatter displays for a stored value x is read back as
\* x, for times and for distances.
C14_RoundTrip ==
    (Read /\ entry.origin = "stored") => (entry.ok /\ ~entry.nan /\ entry.v = entry.x)

\* The last operation's request of the given kind raised.
Raised(request) == "raised" \in DOMAIN last /\ last.raised = request

\* The rows of the last operation's event are ranked as a recompute without
\* failure ranks the rows it was called on: the same rows, positions 1..N
\* once each, a better value at the smaller position, the table's points.
RankedAsFailureFree ==
    /\ {<<r.result_id, r.curtin_id, r.result_value>> : r \in Group}
           = {<<r.result_id, r.curtin_id, r.result_value>> : r \in PrevGroup}
    /\ {r.position : r \in Group} = 1..Cardinality(Group)
    /\ Cardinality({r.result_id : r \in Group}) = Cardinality({r.position : r \in Group})
    /\ \A a, b \in Group :
           SortsBefore(a, b, EventType) => a.position < b.position
    /\ \A r \in Group : r.points = TablePoints(Table, r.position)

\* C15: a recompute that runs to the end right after a recompute of the same
\* event aborted leaves the event ranked as a recompute without failure
\* leaves it, the rows the aborted one had written and the rows it had not.
C15_CompleteAfterAbort ==
    (/\ last.op = "recompute" /\ Completed
     /\ before.recompute = "partial" /\ before.event_id = last.event_id)
        => RankedAsFailureFree

\* The aborted recompute had written one row and left the other with its
\* placeholder; the two rows are then ranked 1 and 2.
C15_Witness ==
    /\ last.op = "recompute" /\ Completed
    /\ before.recompute = "partial" /\ before.event_id = last.event_id
    /\ \E a, b \in PrevGroup : a.position = 999 /\ b.position # 999
    /\ Cardinality(Group) = 2

\* C16: when the insert of add_result raises, add_result returns failure, no
\* recompute runs, the table is as it was and holds no row of the pair.
C16_InsertRaises ==
    (last.op = "add_result" /\ Raised("insert")) =>
        /\ ~last.ret
        /\ last.recompute = "none"
        /\ results = prev
        /\ ~ \E r \in results :
               r.curtin_id = last.curtin_id /\ r.event_id = last.event_id

C16_Witness ==
    /\ last.op = "add_result" /\ Raised("insert")
    /\ Cardinality(results) >= 1

\* C17: when the insert of add_result went through and the recompute
\* aborted, add_result returns success and the inserted row is in the table,
\* next to every row that was there.
C17_RecomputeFailureSwallowed ==
    (last.op = "add_result" /\ Raised("recompute")) =>
        /\ last.ret
        /\ \E r \in results :
               r.result_id = last.result_id /\ r.event_id = last.event_id
        /\ {r.result_id : r \in results}
               = {r.result_id : r \in prev} \cup {last.result_id}

\* The inserted row still has its placeholders while another row is ranked.
C17_Witness ==
    /\ last.op = "add_result" /\ Raised("recompute") /\ last.ret
    /\ \E r \in results :
           r.result_id = last.result_id /\ r.position = 999 /\ r.points = 0
    /\ \E r \in results : r.position = 1

\* The rows of event e in table rs hold the ranking of these rows: positions
\* 1..N once each, a better value at the smaller position, the table's points.
IsRanking(rs, e) ==
    LET group == EventResults(rs, e)
    IN  /\ {r.position : r \in group} = 1..Cardinality(group)
        /\ Cardinality({r.position : r \in group}) = Cardinality(group)
        /\ \A a, b \in group :
               SortsBefore(a, b, events[e].event_type) => a.position < b.position
        /\ \A r \in group :
               r.points = TablePoints(events[e].point_allocation, r.position)

\* C18: whatever two sessions racing on the event have left in the table, a
\* recompute of the event that runs uninterrupted leaves the ranking of the
\* rows then stored.
C18_RecomputeRepairs ==
    [][\A e \in DOMAIN events :
           (Quiescent /\ Recompute(e)) => IsRanking(results', e)]_vars

\* Both sessions have returned and the table they left was not the ranking of
\* its rows; the recompute that followed made it so.
C18_Witness ==
    /\ Quiescent /\ last.op = "recompute" /\ Completed
    /\ Cardinality(PrevGroup) >= 2
    /\ ~IsRanking(prev, last.event_id)
    /\ IsRanking(results, last.event_id)

\* The rows of event e in a table of results or of relay teams.
RowsOf(rows, e) == {r \in rows : r.event_id = e}

\* A session is recomputing event e.
Recomputing(e) == \E c \in Clients : calls[c].pc # "idle" /\ calls[c].event_id = e

\* The rows hold what a recompute run on its own leaves: the ranked rows
\* (those with a value) at positions 1..N once each, a smaller time or
\* greater distance first, with the table's points; the rest as they were.
RankedAlone(rows, before_rows, e) ==
    LET ranked == {r \in rows : r.result_value # 0}
    IN  /\ {r.position : r \in ranked} = 1..Cardinality(ranked)
        /\ Cardinality({r.position : r \in ranked}) = Cardinality(ranked)
        /\ \A a, b \in ranked :
               (IF events[e].event_type = "Track"
                THEN a.result_value < b.result_value
                ELSE a.result_value > b.result_value) => a.position < b.position
        /\ \A r \in ranked :
               r.points = TablePoints(events[e].point_allocation, r.position)
        /\ rows \ ranked = before_rows \ {r \in before_rows : r.result_value # 0}

\* The rows without their ranking.
Unranked(rows) == {[r EXCEPT !.position = 0, !.points = 0] : r \in rows}

\* C19: while sessions recompute different events in any interleaving, an
\* event that no session is in the middle of recomputing holds what running
\* the recomputes one after another leaves it with: its rows as they were
\* before, or as a recompute of this event alone ranks them.  The rows of no
\* event are added to, removed or changed in anything but position and points.
C19_DisjointRecomputes ==
    \A e \in DOMAIN events :
        /\ Unranked(RowsOf(results, e)) = Unranked(RowsOf(prev, e))
        /\ Unranked(RowsOf(relay_teams, e)) = Unranked(RowsOf(prev_teams, e))
        /\ ~Recomputing(e) =>
              /\ \/ RowsOf(results, e) = RowsOf(prev, e)
                 \/ ~events[e].is_relay
                    /\ RankedAlone(RowsOf(results, e), RowsOf(prev, e), e)
              /\ \/ RowsOf(relay_teams, e) = RowsOf(prev_teams, e)
                 \/ events[e].is_relay
                    /\ RankedAlone(RowsOf(relay_teams, e), RowsOf(prev_teams, e), e)

\* Both sessions have returned; an individual event and a relay event were
\* recomputed while one session was in the middle of the other event.
C19_Witness ==
    /\ Quiescent
    /\ RowsOf(results, 1) # RowsOf(prev, 1)
    /\ RowsOf(results, 2) # RowsOf(prev, 2)
    /\ RowsOf(relay_teams, 3) # RowsOf(prev_teams, 3)
    /\ RowsOf(relay_teams, 4) # RowsOf(prev_teams, 4)
    /\ \A e \in {1, 2} : RankedAlone(RowsOf(results, e), RowsOf(prev, e), e)
    /\ \A e \in {3, 4} : RankedAlone(RowsOf(relay_teams, e), RowsOf(prev_teams, e), e)

\* The sum of the points of a set of rows.
RECURSIVE SumOfPoints(_)
SumOfPoints(rows) ==
    IF rows = {} THEN 0
    ELSE LET r == CHOOSE x \in rows : TRUE IN r.points + SumOfPoints(rows \ {r})

\* The stored results of a house's athletes in events that are not relays.
IndividualRowsOf(house) ==
    {r \in results : /\ r.event_id \in DOMAIN events
                     /\ ~events[r.event_id].is_relay
                     /\ HouseOf(r.curtin_id) = house}

TeamsOf(house) == {t \in relay_teams : t.house = house}

\* C20: the standings that get_house_points computes hold, for every house
\* with a counted result or a relay team, one entry; its individual_points
\* are the sum of the stored points of the results of the house's athletes in
\* events that are not relays, its relay_team_points the sum of the stored
\* points of the house's relay teams, its total_points the sum of the two.
C20_HousePoints ==
    last.op = "get_house_points" =>
        /\ \A i \in DOMAIN house_points :
              LET h == house_points[i]
              IN  /\ h.individual_points = SumOfPoints(IndividualRowsOf(h.house))
                  /\ h.relay_team_points = SumOfPoints(TeamsOf(h.house))
                  /\ h.total_points = h.individual_points + h.relay_team_points
        /\ \A i, j \in DOMAIN house_points :
              house_points[i].house = house_points[j].house => i = j
        /\ {house_points[i].house : i \in DOMAIN house_points}
               = {HouseOf(r.curtin_id) : r \in {x \in results : ~events[x.event_id].is_relay}}
                 \cup {t.house : t \in relay_teams}

\* Ignis has individual points and relay points, and an athlete of the house
\* has a result with points stored against a relay event.
C20_Witness ==
    /\ last.op = "get_house_points"
    /\ \E i \in DOMAIN house_points :
          /\ house_points[i].house = "Ignis"
          /\ house_points[i].individual_points > 0
          /\ house_points[i].relay_team_points > 0
    /\ \E r \in results :
          events[r.event_id].is_relay /\ HouseOf(r.curtin_id) = "Ignis" /\ r.points > 0

\* Where a house is met first by the loops of get_house_points.
FirstMet(house) == Min({i \in DOMAIN last.met : last.met[i] = house})

\* C21: the list that get_house_points returns holds the houses by
\* total_points descending, and of two houses with equal totals the one that
\* the aggregation met first comes first.
C21_HouseListOrder ==
    last.op = "get_house_points" =>
        \A i, j \in DOMAIN house_points :
            i < j =>
                \/ house_points[i].total_points > house_points[j].total_points
                \/ /\ house_points[i].total_points = house_points[j].total_points
                   /\ FirstMet(house_points[i].house) < FirstMet(house_points[j].house)

\* Ventus is met first and has the fewest points; Nereus and Ignis tie ahead
\* of it, Nereus met before Ignis.
C21_Witness ==
    /\ last.op = "get_house_points"
    /\ Len(house_points) = 3
    /\ last.met[1] = "Ventus"
    /\ house_points[1].house = "Nereus"
    /\ house_points[2].house = "Ignis"
    /\ house_points[1].total_points = house_points[2].total_points
    /\ house_points[2].total_points > house_points[3].total_points

\* The stored results of an athlete in events that are not relays.
IndividualResultsOf(curtin_id) ==
    {r \in results : /\ r.curtin_id = curtin_id
                     /\ r.event_id \in DOMAIN events
                     /\ ~events[r.event_id].is_relay}

\* C22: in the leaderboard that get_individual_athlete_performance computes
\* without the view, an athlete's total_points is the sum of the stored
\* points of the athlete's results in events that are not relays,
\* total_events their number, and the gold, silver and bronze medals the
\* numbers of those with stored position 1, 2 and 3; the unlimited
\* leaderboard has one entry for every athlete with such a result.
C22_AthleteTotals ==
    last.op = "get_individual_athlete_performance" =>
        /\ \A i \in DOMAIN performance_list :
              LET a == performance_list[i]
                  own == IndividualResultsOf(a.curtin_id)
              IN  /\ a.total_points = SumOfPoints(own)
                  /\ a.total_events = Cardinality(own)
                  /\ a.gold_medals = Cardinality({r \in own : r.position = 1})
                  /\ a.silver_medals = Cardinality({r \in own : r.position = 2})
                  /\ a.bronze_medals = Cardinality({r \in own : r.position = 3})
        /\ \A i, j \in DOMAIN performance_list :
              performance_list[i].curtin_id = performance_list[j].curtin_id => i = j
        /\ last.limit = 0 =>
              {performance_list[i].curtin_id : i \in DOMAIN performance_list}
                  = {s \in Students : IndividualResultsOf(s) # {}}

\* An athlete with one result, a gold medal, in the individual events whose
\* house has a relay team with points and who has a result with points and
\* position 1 stored against a relay event.
C22_Witness ==
    /\ last.op = "get_individual_athlete_performance"
    /\ \E i \in DOMAIN performance_list :
          LET a == performance_list[i]
          IN  /\ a.gold_medals = 1
              /\ a.total_events = 1
              /\ a.total_points = 10
              /\ \E t \in relay_teams : t.house = a.house /\ t.points > 0
              /\ \E r \in results :
                    /\ r.curtin_id = a.curtin_id
                    /\ events[r.event_id].is_relay
                    /\ r.position = 1
                    /\ r.points > 0

\* The teams of an event with a recorded time.
TimedTeams(e) == {t \in relay_teams : t.event_id = e /\ t.result_value # 0}

\* C23: when add_relay_team_result has stored a time and re-ranked the
\* team's relay event, the teams of the event with a time hold the positions
\* 1..K, a faster team ahead of a slower one, each with the points of the
\* event's table for its position (44.50 against 45.00 under
\* {1:15, 2:9, 3:5, 4:3}: position 1 with 15 points, position 2 with 9); and
\* in the standings the points of the teams of a house are its
\* relay_team_points, its individual_points being the points of its
\* athletes' results alone.
C23_RelayRanking ==
    /\ (last.op = "add_relay_team_result" /\ last.ret) =>
          LET timed == TimedTeams(last.event_id)
          IN  /\ {t.position : t \in timed} = 1..Cardinality(timed)
              /\ \A a, b \in timed :
                    a.result_value < b.result_value => a.position < b.position
              /\ \A t \in timed :
                    t.points = TablePoints(events[last.event_id].point_allocation,
                                           t.position)
              /\ \A a, b \in timed :
                    (/\ Cardinality(timed) = 2
                     /\ a.result_value = 4450 /\ b.result_value = 4500
                     /\ events[last.event_id].point_allocation
                          = StoredAllocation(TRUE, DefaultRelayPoints))
                    => /\ a.position = 1 /\ a.points = 15
                       /\ b.position = 2 /\ b.points = 9
    /\ last.op = "get_house_points" =>
          \A i \in DOMAIN house_points :
              /\ house_points[i].relay_team_points
                    = SumOfPoints(TeamsOf(house_points[i].house))
              /\ house_points[i].individual_points
                    = SumOfPoints(IndividualRowsOf(house_points[i].house))

\* The standings are read with the teams of Ignis (45.00) and of Nereus
\* (44.50) ranked in event 3: Nereus has 15 relay points and no individual
\* points, Ignis 9 relay points beside the points of its athletes.
C23_Witness ==
    /\ last.op = "get_house_points"
    /\ \E a, b \in relay_teams :
          /\ a.event_id = 3 /\ a.house = "Nereus" /\ a.result_value = 4450
          /\ a.position = 1 /\ a.points = 15
          /\ b.event_id = 3 /\ b.house = "Ignis" /\ b.result_value = 4500
          /\ b.position = 2 /\ b.points = 9
    /\ \E i, j \in DOMAIN house_points :
          /\ house_points[i].house = "Nereus"
          /\ house_points[i].relay_team_points = 15
          /\ house_points[i].individual_points = 0
          /\ house_points[j].house = "Ignis"
          /\ house_points[j].relay_team_points = 9
          /\ house_points[j].individual_points = 16

\* The results whose athlete and event both have their record.
Linked == {r \in results : r.curtin_id \in Students /\ r.event_id \in DOMAIN events}

\* The linked results in events that are not relays: of a house, of an athlete.
LinkedOfHouse(house) ==
    {r \in Linked : ~events[r.event_id].is_relay /\ HouseOf(r.curtin_id) = house}

LinkedOfAthlete(curtin_id) ==
    {r \in Linked : ~events[r.event_id].is_relay /\ r.curtin_id = curtin_id}

IsTeamRanking(ts, e) ==
    LET timed == {t \in ts : t.event_id = e /\ t.result_value # 0}
    IN  /\ {t.position : t \in timed} = 1..Cardinality(timed)
        /\ \A a, b \in timed : a.result_value < b.result_value => a.position < b.position
        /\ \A t \in timed : t.points = TablePoints(events[e].point_allocation, t.position)

\* C25: when recalculate_all_points has returned, it has returned a boolean
\* and every event is ranked as a recompute of the event ranks it, the
\* results of an event as well as its relay teams; also in a store without
\* the SQL function.
C25_RecalculateAll ==
    last.op = "recalculate_all_points" =>
        /\ last.returned \in {"True", "False"}
        /\ \A e \in DOMAIN events :
              /\ IsRanking(results, e)
              /\ IsTeamRanking(relay_teams, e)

\* C26: when the result form was submitted with a valid measurement for an
\* athlete without a result in the event, the measurement is stored and the
\* event ranked.
C26_FormSubmitStored ==
    (last.op = "show_result_entry_form" /\ last.valid /\ ~last.existed) =>
        /\ \E r \in results :
              r.curtin_id = last.curtin_id /\ r.event_id = last.event_id
        /\ IsRanking(results, last.event_id)

\* C27: every relay team in the store has four members who are four
\* distinct athletes of the store, all of the team's house.
C27_TeamMembersValid ==
    \A t \in relay_teams :
        /\ \A i \in 1..4 : /\ t.members[i] \in Students
                            /\ HouseOf(t.members[i]) = t.house
        /\ Cardinality({t.members[i] : i \in 1..4}) = 4

RecomputeStep(e) ==
    last'.op = "recompute" /\ last'.event_id = e /\ Recompute(e)

\* A step that is the call _calculate_relay_positions_and_points(e).
RelayRecomputeStep(e) ==
    last'.op = "relay_recompute" /\ last'.event_id = e /\ RelayRecompute(e)

\* C29: a call of _calculate_relay_positions_and_points leaves the teams of
\* the event that have a time at the positions 1..K, each once, and every
\* team of the event without a time with the position and points it had.
C29_RelayRecomputeFrame ==
    [][\A e \in RecomputeIds :
         RelayRecomputeStep(e) =>
             LET timed == {t \in relay_teams' : t.event_id = e /\ t.result_value # 0}
             IN  /\ {t.position : t \in timed} = 1..Cardinality(timed)
                 /\ \A t \in relay_teams :
                       (t.event_id = e /\ t.result_value = 0) => t \in relay_teams']_vars

\* Event 3 was re-ranked with one team timed and one whose time is 0.0: the
\* timed team is at position 1, the other still holds the position 1 and
\* the 15 points of an earlier ranking.
C29_Witness ==
    /\ last.op = "relay_recompute"
    /\ last.event_id = 3
    /\ \E a, b \in relay_teams :
          /\ a.event_id = 3 /\ a.result_value = 0 /\ a.position = 1 /\ a.points = 15
          /\ b.event_id = 3 /\ b.result_value # 0 /\ b.position = 1

\* C30: a recompute of the results or of the relay teams of an event adds and
\* removes no row and changes no field of a row but position and points, and
\* no event; with an id that no event has it changes nothing.
C30_RecomputeFrame ==
    [][\A e \in RecomputeIds :
         (RecomputeStep(e) \/ RelayRecomputeStep(e)) =>
             /\ events' = events
             /\ Unranked(results') = Unranked(results)
             /\ Cardinality(results') = Cardinality(results)
             /\ Unranked(relay_teams') = Unranked(relay_teams)
             /\ Cardinality(relay_teams') = Cardinality(relay_teams)
             /\ e \notin DOMAIN events =>
                   results' = results /\ relay_teams' = relay_teams]_vars

\* The results of event 1 were re-ranked, which changed their positions,
\* in a store whose relay teams are ranked as well.
C30_Witness ==
    /\ last.op = "recompute"
    /\ last.event_id = 1
    /\ results # prev
    /\ \E t \in relay_teams : t.position = 1

\* C9: in every state of the store, also with two sessions calling add_result
\* at once, an (athlete, event) pair has at most one row.
C9_OneResultPerPair ==
    \A a, b \in results :
        (a.curtin_id = b.curtin_id /\ a.event_id = b.event_id) => a = b

====
